---- MODULE Spec2Model ----
(***************************************************************************)
(* Model of the Cloudflare reviews worker, cf-reviews-worker/src/index.js. *)
(* One invocation of the fetch handler is a chain of steps separated by    *)
(* its awaits: dispatch up to the OAuth token request, the answer of the   *)
(* token endpoint, and the answer of each listing page.  The upstream      *)
(* (token endpoint, listing endpoint) is the environment: every answer is  *)
(* chosen nondeterministically from small sets.                            *)
(***************************************************************************)
EXTENDS Integers, Sequences, FiniteSets, TLC

VARIABLES
  env,          \* the Worker bindings handed to fetch(request, env)
  request,      \* the inbound request being handled
  pc,           \* "idle" | "awaitToken" | "awaitList" | "done"
  limitParam,   \* fetch: url.searchParams.get("limit")
  limit,        \* fetch: const limit
  accountId,    \* fetch: const accountId
  locationId,   \* fetch: const locationId
  accessToken,  \* fetchLatestReviews: const accessToken
  pageToken,    \* fetchLatestReviews: let pageToken
  all,          \* fetchLatestReviews: const all = []
  inflight,     \* the outbound request awaiting its answer
  answer,       \* resp and json of the last outbound request answered
  tokenCalls,   \* outbound requests to the OAuth token endpoint, this invocation
  listCalls,    \* outbound requests to the listing endpoint, this invocation
  response,     \* the Response returned by fetch
  parked        \* the locals of a second invocation while it is not running

vars == <<env, request, pc, limitParam, limit, accountId, locationId, accessToken,
          pageToken, all, inflight, answer, tokenCalls, listCalls, response,
          parked>>

----------------------------------------------------------------------------
(* Bounds of the model *)

\* the upstream holds at most this many review records over all its pages
MaxRecords == 3

----------------------------------------------------------------------------
(* JavaScript values *)

Undef == "<undefined>"
Null  == "<null>"

\* !x for the string-or-missing values the worker tests
Falsy(x) == x \in {Undef, Null, ""}

\* a || b
Or(a, b) == IF Falsy(a) THEN b ELSE a

\* a ?? b
Coalesce(a, b) == IF a \in {Undef, Null} THEN b ELSE a

Min(a, b) == IF a < b THEN a ELSE b
Max(a, b) == IF a > b THEN a ELSE b

\* a JavaScript number that is an integer or NaN
Num(n) == [nan |-> FALSE, v |-> n]
NaN    == [nan |-> TRUE,  v |-> 0]

\* n || 0 for a number n: NaN and 0 are falsy
OrZero(n) == IF n.nan THEN 0 ELSE n.v

----------------------------------------------------------------------------
(* Inputs *)

Secrets     == {Undef, "", "secret"}
\* the configured defaults: GBP_ACCOUNT_ID unset or set, GBP_LOCATION_ID empty
\* or set; a placeholder reaches the handler through the query parameters
AccountVars  == {Undef, "id-1"}
LocationVars == {"", "id-1"}
ParamIds    == {Null, "", "YOUR_ID", "id-1"}
Origins     == {Undef, "https://signage.example"}
Methods     == {"GET", "POST", "OPTIONS"}
Paths       == {"/reviews", "/"}
LimitParams == {Null, "abc", "2", "3.7"}

\* more values of the limit parameter: empty, not a number, not finite,
\* negative, zero, fractional, at and beyond the bounds
LimitInputs ==
  LimitParams \cup
  {"", "12px", "Infinity", "-Infinity", "-5", "-0.5", "0", "0.9", "1", "1.9",
   "1e1", "49.9", "50", "50.9", "51", "99"}

Envs ==
  [GOOGLE_OAUTH_CLIENT_ID     : Secrets,
   GOOGLE_OAUTH_CLIENT_SECRET : Secrets,
   GOOGLE_OAUTH_REFRESH_TOKEN : Secrets,
   GBP_ACCOUNT_ID             : AccountVars,
   GBP_LOCATION_ID            : LocationVars,
   ALLOWED_ORIGIN             : Origins]

\* request.method and url.pathname; the query parameters are read once, by
\* fetch, into limit, accountId and locationId
Requests == [method : Methods, pathname : Paths]

\* raw createTime of an upstream record: missing, not a date, or an instant
\* given by its milliseconds since the epoch
CreateTimes ==
  {[kind |-> "absent", ms |-> 0], [kind |-> "bad", ms |-> 0]}
    \cup {[kind |-> "date", ms |-> m] : m \in {-1500, 1500}}

TokenStatuses == {200, 401}
AccessTokens  == {Undef, "", "ya29.token"}
PageTokens    == {Undef, "next-page"}

\* star-rating labels: the five of the enumeration, the unspecified one,
\* other spellings, and names every JavaScript object inherits
StarLabels ==
  {Undef, "ONE", "TWO", "THREE", "FOUR", "FIVE", "STAR_RATING_UNSPECIFIED",
   "five", "One", "SIX", "5", "", "constructor", "toString", "hasOwnProperty"}

\* more creation times: instants around the epoch and on a whole second
MoreCreateTimes ==
  CreateTimes \cup {[kind |-> "date", ms |-> m] : m \in {-1000, -1, 0, 999, 1000}}

\* the sequences over S of length n
SeqsOfLen(S, n) == [1..n -> S]

\* upstream records: the id is the record's position in the upstream listing
Records(from, cts) ==
  [i \in 1..Len(cts) |->
     [reviewId |-> from + i, starRating |-> "FIVE", createTime |-> cts[i]]]

\* answers of the OAuth token endpoint
TokenResponses ==
  [status : TokenStatuses, text : {"invalid_grant"},
   json : [access_token : AccessTokens]]

\* answers of the listing endpoint when `have` records were already served:
\* a non-success answer carries an error document, a success answer a page
\* of any length (json.reviews may be missing) with or without a token
ListResponses(have) ==
  [status : {403}, text : {"denied"},
   json : {[hasReviews |-> FALSE, reviews |-> <<>>, nextPageToken |-> Undef]}]
  \cup
  [status : {200}, text : {""},
   json : [hasReviews : {FALSE}, reviews : {<<>>}, nextPageToken : PageTokens]]
  \cup
  {[status |-> 200, text |-> "",
    json |-> [hasReviews |-> TRUE,
              reviews |-> Records(have, cts),
              nextPageToken |-> t]] :
     t \in PageTokens,
     cts \in UNION {SeqsOfLen(CreateTimes, n) : n \in 0..(MaxRecords - have)}}

----------------------------------------------------------------------------
(* Pure functions of index.js *)

\* Number(value) for the limit strings above, in tenths
Number(value) ==
  CASE value = "10"  -> [finite |-> TRUE,  tenths |-> 100]
    [] value = "2"   -> [finite |-> TRUE,  tenths |-> 20]
    [] value = "3.7" -> [finite |-> TRUE,  tenths |-> 37]
    [] value = "abc" -> [finite |-> FALSE, tenths |-> 0]
    [] value = "12px" -> [finite |-> FALSE, tenths |-> 0]
    [] value = "Infinity"  -> [finite |-> FALSE, tenths |-> 0]
    [] value = "-Infinity" -> [finite |-> FALSE, tenths |-> 0]
    [] value = ""     -> [finite |-> TRUE,  tenths |-> 0]
    [] value = "-5"   -> [finite |-> TRUE,  tenths |-> -50]
    [] value = "-0.5" -> [finite |-> TRUE,  tenths |-> -5]
    [] value = "0"    -> [finite |-> TRUE,  tenths |-> 0]
    [] value = "0.9"  -> [finite |-> TRUE,  tenths |-> 9]
    [] value = "1"    -> [finite |-> TRUE,  tenths |-> 10]
    [] value = "1.9"  -> [finite |-> TRUE,  tenths |-> 19]
    [] value = "1e1"  -> [finite |-> TRUE,  tenths |-> 100]
    [] value = "49.9" -> [finite |-> TRUE,  tenths |-> 499]
    [] value = "50"   -> [finite |-> TRUE,  tenths |-> 500]
    [] value = "50.9" -> [finite |-> TRUE,  tenths |-> 509]
    [] value = "51"   -> [finite |-> TRUE,  tenths |-> 510]
    [] value = "99"   -> [finite |-> TRUE,  tenths |-> 990]

\* a rounding to the nearest integer
TruncRound(t) == (t + 5) \div 10

\* Math.trunc of a number given in tenths
Trunc(t) == IF t >= 0 THEN t \div 10 ELSE -((-t) \div 10)

\* a clamp that falls back to the upper bound
clampIntFallbackMax(value, min, max) ==
  LET n == Number(value)
  IN  IF ~n.finite THEN max ELSE Max(min, Min(max, Trunc(n.tenths)))

clampInt(value, min, max) ==
  LET n == Number(value)
  IN  IF ~n.finite THEN min ELSE Max(min, Min(max, Trunc(n.tenths)))

\* s.includes("YOUR_")
IncludesPlaceholder(s) == s \in {"YOUR_ID"}

\* resp.ok
Ok(resp) == resp.status \in 200..299

NoError == [message |-> "", status |-> 0, text |-> ""]
Error(message, status, text) ==
  [message |-> message, status |-> status, text |-> text]

\* bodies: null, a plain text, JSON {reviews} and JSON {error}
NoBody == [kind |-> "none", text |-> "", reviews |-> <<>>, error |-> NoError]
TextBody(t) == [kind |-> "text", text |-> t, reviews |-> <<>>, error |-> NoError]
ReviewsBody(rs) ==
  [kind |-> "reviews", text |-> "", reviews |-> rs, error |-> NoError]
ErrorBody(e) == [kind |-> "error", text |-> "", reviews |-> <<>>, error |-> e]

\* a response that always allows every origin
corsResponseAnyOrigin(body, e, status, contentType) ==
  [status |-> status,
   body |-> body,
   headers |->
     [ContentType |-> contentType,
      AllowOrigin |-> "*",
      AllowMethods |-> "GET,OPTIONS",
      AllowHeaders |-> "Content-Type,Authorization",
      MaxAge |-> "86400"]]

corsResponse(body, e, status, contentType) ==
  [status |-> status,
   body |-> body,
   headers |->
     [ContentType |-> contentType,
      AllowOrigin |-> Or(e.ALLOWED_ORIGIN, "*"),
      AllowMethods |-> "GET,OPTIONS",
      AllowHeaders |-> "Content-Type,Authorization",
      MaxAge |-> "86400"]]

NoResponse ==
  [status |-> 0, body |-> NoBody,
   headers |-> [ContentType |-> "", AllowOrigin |-> "", AllowMethods |-> "",
                AllowHeaders |-> "", MaxAge |-> ""]]

JsonType == "application/json; charset=utf-8"
TextType == "text/plain; charset=utf-8"

\* the catch block of fetch
Caught(err) == corsResponse(ErrorBody(err), env, 500, JsonType)

\* a check that forgets the refresh token
MissingSecretsNoRefresh(e) ==
  \/ Falsy(e.GOOGLE_OAUTH_CLIENT_ID)
  \/ Falsy(e.GOOGLE_OAUTH_CLIENT_SECRET)

\* getAccessToken: !clientId || !clientSecret || !refreshToken
MissingSecrets(e) ==
  \/ Falsy(e.GOOGLE_OAUTH_CLIENT_ID)
  \/ Falsy(e.GOOGLE_OAUTH_CLIENT_SECRET)
  \/ Falsy(e.GOOGLE_OAUTH_REFRESH_TOKEN)

\* a token exchange whose status is never looked at
TokenRefreshNeverFailed(resp) == FALSE

\* getAccessToken: !resp.ok
TokenRefreshFailed(resp) == ~Ok(resp)

\* a token exchange whose access_token is never looked at
AccessTokenAssumed(json) == FALSE

\* getAccessToken: !json.access_token
NoAccessToken(json) == Falsy(json.access_token)

\* fetchLatestReviews: the identifier check
BadIds(acc, loc) ==
  \/ Falsy(acc) \/ Falsy(loc)
  \/ IncludesPlaceholder(acc) \/ IncludesPlaceholder(loc)

\* the upstream page-size ceiling
PageSizeCeiling == 50

\* a request that always asks for a whole page
PageSizeWhole(lim, have) == PageSizeCeiling

\* fetchLatestReviews: Math.min(50, limit - all.length)
PageSize(lim, have) == Min(PageSizeCeiling, lim - have)

\* a loop that runs while all.length <= limit
LoopConditionInclusive(acc, lim) == Len(acc) <= lim

\* fetchLatestReviews: the while condition
LoopCondition(acc, lim) == Len(acc) < lim

\* a listing answer whose status is never looked at
ListNeverFailed(resp) == FALSE

\* fetchLatestReviews: !resp.ok of a listing answer
ListFailed(resp) == ~Ok(resp)

\* fetchLatestReviews: json.reviews || []
PageReviews(json) == IF json.hasReviews THEN json.reviews ELSE <<>>

\* a break that only looks at the token
BreakTokenOnly(token, reviews) == Falsy(token)

\* a break that needs both conditions
BreakBoth(token, reviews) == Falsy(token) /\ Len(reviews) = 0

\* fetchLatestReviews: if (!pageToken || reviews.length === 0) break
Break(token, reviews) == Falsy(token) \/ Len(reviews) = 0

\* a slice that keeps everything
SliceAll(s, n) == s

\* s.slice(0, n)
Slice(s, n) == SubSeq(s, 1, Min(n, Len(s)))

\* new Date(createTime).getTime()
GetTime(ct) == IF ct.kind = "date" THEN Num(ct.ms) ELSE NaN

\* Math.floor(t / 1000)
FloorSeconds(t) == IF t.nan THEN NaN ELSE Num(t.v \div 1000)

\* r.createTime ? new Date(r.createTime) : null, then
\* createTime ? Math.floor(createTime.getTime() / 1000) : 0
EpochSeconds(ct) ==
  IF ct.kind = "absent" THEN Num(0) ELSE FloorSeconds(GetTime(ct))

\* a JavaScript value that is a number, a function or undefined
Number_(n)  == [type |-> "number", v |-> n]
Function_  == [type |-> "function", v |-> 0]
Undefined_ == [type |-> "undefined", v |-> 0]

\* map[starRating] for the object literal { ONE: 1, ..., FIVE: 5 }: an own
\* property, else a property inherited from Object.prototype, else undefined
MapLookup(starRating) ==
  CASE starRating = "ONE"   -> Number_(1)
    [] starRating = "TWO"   -> Number_(2)
    [] starRating = "THREE" -> Number_(3)
    [] starRating = "FOUR"  -> Number_(4)
    [] starRating = "FIVE"  -> Number_(5)
    [] starRating \in {"constructor", "toString", "hasOwnProperty"} -> Function_
    [] OTHER -> Undefined_

\* map[starRating] || 0
starEnumToNumber(starRating) ==
  LET v == MapLookup(starRating)
  IN  IF v.type = "undefined" \/ (v.type = "number" /\ v.v = 0)
        THEN Number_(0) ELSE v

\* fetchLatestReviews: the map callback (reviewId, rating, time, createTime)
Normalize(r) ==
  [reviewId |-> r.reviewId,
   rating |-> starEnumToNumber(r.starRating),
   time |-> EpochSeconds(r.createTime),
   createTime |-> r.createTime]

\* a comparator that sorts oldest first
CompareAscending(a, b) == OrZero(a.time) - OrZero(b.time)

\* the sort comparator: (b.time || 0) - (a.time || 0)
Compare(a, b) == OrZero(b.time) - OrZero(a.time)

\* Array.prototype.sort with Compare: a stable sort
RECURSIVE Sort(_)
Sort(s) ==
  IF Len(s) <= 1 THEN s
  ELSE LET init == Sort(SubSeq(s, 1, Len(s) - 1))
           x    == s[Len(s)]
           k    == Cardinality({i \in 1..Len(init) : Compare(init[i], x) <= 0})
       IN  SubSeq(init, 1, k) \o <<x>> \o SubSeq(init, k + 1, Len(init))

\* fetchLatestReviews, after the loop: slice, map, sort
Normalized(acc, lim) ==
  LET cut == Slice(acc, lim)
  IN  Sort([i \in 1..Len(cut) |-> Normalize(cut[i])])

----------------------------------------------------------------------------
(* Outbound requests *)

NoRequest == [kind |-> "none", pageSize |-> 0, pageToken |-> Null, bearer |-> ""]
TokenRequest ==
  [kind |-> "token", pageSize |-> 0, pageToken |-> Null, bearer |-> ""]
\* a listing request sent without the Authorization header
ListRequestNoBearer(size, token, bearer) ==
  [kind |-> "list", pageSize |-> size,
   pageToken |-> IF Falsy(token) THEN Null ELSE token, bearer |-> ""]

\* u.searchParams.set("pageSize", ...); if (pageToken) set("pageToken", ...);
\* Authorization: Bearer accessToken
ListRequest(size, token, bearer) ==
  [kind |-> "list", pageSize |-> size,
   pageToken |-> IF Falsy(token) THEN Null ELSE token, bearer |-> bearer]

\* what the handler reads of an answer: resp.status, resp.text(), and of
\* json the access_token, the nextPageToken and the length of the page;
\* requested is the pageSize of the request it answers
NoAnswer ==
  [kind |-> "none", status |-> 0, text |-> "", access_token |-> Undef,
   nextPageToken |-> Undef, count |-> 0, requested |-> 0]
TokenAnswer(resp) ==
  [kind |-> "token", status |-> resp.status, text |-> resp.text,
   access_token |-> resp.json.access_token,
   nextPageToken |-> Undef, count |-> 0, requested |-> 0]
ListAnswer(resp, req) ==
  [kind |-> "list", status |-> resp.status, text |-> resp.text,
   access_token |-> Undef,
   nextPageToken |-> resp.json.nextPageToken,
   count |-> Len(resp.json.reviews), requested |-> req.pageSize]

----------------------------------------------------------------------------
(* The state machine: one invocation of the handler *)

\* the locals of the invocation that is running: fetch and the functions it
\* calls keep everything in const/let locals, the module has no variable
Context ==
  [request |-> request, pc |-> pc, limitParam |-> limitParam, limit |-> limit,
   accountId |-> accountId, locationId |-> locationId,
   accessToken |-> accessToken, pageToken |-> pageToken, all |-> all,
   inflight |-> inflight, answer |-> answer, tokenCalls |-> tokenCalls,
   listCalls |-> listCalls, response |-> response]

\* an invocation that has not been dispatched yet
NotStarted ==
  [request |-> [method |-> "", pathname |-> ""], pc |-> "idle",
   limitParam |-> Null, limit |-> 0, accountId |-> Undef, locationId |-> Undef,
   accessToken |-> Undef, pageToken |-> Null, all |-> <<>>,
   inflight |-> NoRequest, answer |-> NoAnswer, tokenCalls |-> 0,
   listCalls |-> 0, response |-> NoResponse]

Init ==
  /\ env \in Envs
  /\ parked = NotStarted
  /\ request = [method |-> "", pathname |-> ""]
  /\ pc = "idle"
  /\ limitParam = Null
  /\ limit = 0
  /\ accountId = Undef
  /\ locationId = Undef
  /\ accessToken = Undef
  /\ pageToken = Null
  /\ all = <<>>
  /\ inflight = NoRequest
  /\ answer = NoAnswer
  /\ tokenCalls = 0
  /\ listCalls = 0
  /\ response = NoResponse

\* fetch returns resp without touching the pipeline's variables
Return(resp) ==
  /\ pc' = "done"
  /\ response' = resp
  /\ inflight' = NoRequest

\* fetch(request, env) up to its first await or its return.  qLimit,
\* qAccountId and qLocationId are url.searchParams.get(...) of the three
\* query parameters (null when absent).
fetch(req, qLimit, qAccountId, qLocationId) ==
  /\ pc = "idle"
  /\ request' = req
  /\ UNCHANGED <<env, accessToken, pageToken, all, answer, listCalls, parked>>
  /\ IF req.method = "OPTIONS"
       THEN /\ Return(corsResponse(NoBody, env, 204, ""))
            /\ UNCHANGED <<limitParam, limit, accountId, locationId, tokenCalls>>
     ELSE IF req.pathname = "/reviews"
       THEN /\ limitParam' = qLimit
            /\ limit' = clampInt(Coalesce(qLimit, "10"), 1, 50)
            /\ accountId' = Or(qAccountId, env.GBP_ACCOUNT_ID)
            /\ locationId' = Or(qLocationId, env.GBP_LOCATION_ID)
            /\ IF MissingSecrets(env)
                 THEN /\ Return(Caught(Error("Missing OAuth secrets in Worker env.", 0, "")))
                      /\ UNCHANGED tokenCalls
                 ELSE /\ pc' = "awaitToken"
                      /\ inflight' = TokenRequest
                      /\ tokenCalls' = tokenCalls + 1
                      /\ response' = NoResponse
       ELSE /\ Return(corsResponse(TextBody("Not found"), env, 404, TextType))
            /\ UNCHANGED <<limitParam, limit, accountId, locationId, tokenCalls>>

\* the token endpoint answers: the rest of getAccessToken, the identifier
\* check of fetchLatestReviews and the first turn of its loop
TokenResponse(resp) ==
  /\ pc = "awaitToken"
  /\ answer' = TokenAnswer(resp)
  /\ UNCHANGED <<env, request, limitParam, limit, accountId, locationId,
                 pageToken, all, tokenCalls, parked>>
  /\ IF TokenRefreshFailed(resp)
       THEN /\ Return(Caught(Error("OAuth token refresh failed", resp.status, resp.text)))
            /\ UNCHANGED <<accessToken, listCalls>>
     ELSE IF NoAccessToken(resp.json)
       THEN /\ Return(Caught(Error("OAuth token refresh returned no access_token.", 0, "")))
            /\ UNCHANGED <<accessToken, listCalls>>
     ELSE /\ accessToken' = resp.json.access_token
          /\ IF BadIds(accountId, locationId)
               THEN /\ Return(Caught(Error("Missing/placeholder accountId or locationId. Provide ?accountId=...&locationId=... or set Worker vars.", 0, "")))
                    /\ UNCHANGED listCalls
             ELSE IF LoopCondition(all, limit)
               THEN /\ pc' = "awaitList"
                    /\ inflight' = ListRequest(PageSize(limit, Len(all)), pageToken,
                                                resp.json.access_token)
                    /\ listCalls' = listCalls + 1
                    /\ UNCHANGED response
             ELSE /\ Return(corsResponse(ReviewsBody(Normalized(all, limit)),
                                         env, 200, JsonType))
                  /\ UNCHANGED listCalls

\* the listing endpoint answers: the rest of the loop turn, then either the
\* next turn's request or normalization and the 200 response
ListResponse(resp) ==
  /\ pc = "awaitList"
  /\ answer' = ListAnswer(resp, inflight)
  /\ UNCHANGED <<env, request, limitParam, limit, accountId, locationId,
                 accessToken, tokenCalls, parked>>
  /\ IF ListFailed(resp)
       THEN /\ Return(Caught(Error("GBP reviews list failed", resp.status, resp.text)))
            /\ UNCHANGED <<pageToken, all, listCalls>>
     ELSE LET reviews == PageReviews(resp.json)
              acc     == all \o reviews
              token   == resp.json.nextPageToken
          IN  /\ all' = acc
              /\ pageToken' = token
              /\ IF ~Break(token, reviews) /\ LoopCondition(acc, limit)
                   THEN /\ pc' = "awaitList"
                        /\ inflight' = ListRequest(PageSize(limit, Len(acc)), token,
                                                    accessToken)
                        /\ listCalls' = listCalls + 1
                        /\ UNCHANGED response
                 ELSE /\ Return(corsResponse(ReviewsBody(Normalized(acc, limit)),
                                             env, 200, JsonType))
                      /\ UNCHANGED listCalls

Next ==
  \/ \E req \in Requests, qLimit \in LimitParams,
        qAccountId \in ParamIds, qLocationId \in ParamIds :
       fetch(req, qLimit, qAccountId, qLocationId)
  \/ \E resp \in TokenResponses : TokenResponse(resp)
  \/ \E resp \in ListResponses(Len(all)) : ListResponse(resp)

Spec == Init /\ [][Next]_vars

\* the same handler on a wider range of limit parameters, with an upstream
\* that serves a single page of at most one record, of any star rating and
\* creation time
SinglePages ==
  {r \in ListResponses(0) : Len(r.json.reviews) = 0 /\ Falsy(r.json.nextPageToken)}
  \cup
  {[status |-> 200, text |-> "",
    json |-> [hasReviews |-> TRUE,
              reviews |-> <<[reviewId |-> 1, starRating |-> star, createTime |-> ct]>>,
              nextPageToken |-> Undef]] :
     star \in StarLabels, ct \in MoreCreateTimes}

NextInputs ==
  \/ \E req \in Requests, qLimit \in LimitInputs,
        qAccountId \in ParamIds, qLocationId \in ParamIds :
       fetch(req, qLimit, qAccountId, qLocationId)
  \/ \E resp \in TokenResponses : TokenResponse(resp)
  \/ \E resp \in SinglePages : ListResponse(resp)

SpecInputs == Init /\ [][NextInputs]_vars

\* two invocations in one isolate.  The event loop runs one of them at a
\* time and may turn to the other wherever the running one awaits or has
\* returned; an invocation resumes with the locals it was suspended with.

\* a resumption that finds the access token in a variable of the module
ResumeSharedToken(ctx, running) == [ctx EXCEPT !.accessToken = running.accessToken]

\* the locals an invocation resumes with, while `running` are the locals of
\* the invocation that ran before it
Resume(ctx, running) == ctx

\* the event loop turns from the running invocation to the other one
Switch ==
  LET ctx == Resume(parked, Context)
  IN  /\ parked' = Context
      /\ request' = ctx.request
      /\ pc' = ctx.pc
      /\ limitParam' = ctx.limitParam
      /\ limit' = ctx.limit
      /\ accountId' = ctx.accountId
      /\ locationId' = ctx.locationId
      /\ accessToken' = ctx.accessToken
      /\ pageToken' = ctx.pageToken
      /\ all' = ctx.all
      /\ inflight' = ctx.inflight
      /\ answer' = ctx.answer
      /\ tokenCalls' = ctx.tokenCalls
      /\ listCalls' = ctx.listCalls
      /\ response' = ctx.response
      /\ UNCHANGED env

\* the requests of the two invocations: /reviews or a preflight, limit 2 or 3
ConcurrentRequests == {req \in Requests : req.method \in {"GET", "OPTIONS"} /\ req.pathname = "/reviews"}
ConcurrentLimits   == {"2", "3.7"}

\* the token endpoint answers every exchange with a token of its own, or fails
ConcurrentTokenResponses ==
  {r \in TokenResponses : r.status = 401 /\ r.json.access_token = Undef}
  \cup
  [status : {200}, text : {""}, json : [access_token : {"ya29.token", "ya29.other"}]]

\* the listing endpoint answers with an error or with a page of at most one
\* record, with or without a continuation token
ConcurrentPages(have) ==
  [status : {403}, text : {"denied"},
   json : {[hasReviews |-> FALSE, reviews |-> <<>>, nextPageToken |-> Undef]}]
  \cup
  {[status |-> 200, text |-> "",
    json |-> [hasReviews |-> TRUE,
              reviews |-> Records(have, cts),
              nextPageToken |-> t]] :
     t \in PageTokens,
     cts \in UNION {SeqsOfLen({c \in CreateTimes : c.kind = "absent" \/ c.ms > 0}, n) :
                      n \in 0..1}}

NextConcurrent ==
  \/ \E req \in ConcurrentRequests, qLimit \in ConcurrentLimits :
       fetch(req, qLimit, Null, Null)
  \/ \E resp \in ConcurrentTokenResponses : TokenResponse(resp)
  \/ \E resp \in ConcurrentPages(Len(all)) : ListResponse(resp)
  \/ Switch

SpecConcurrent == Init /\ [][NextConcurrent]_vars

----------------------------------------------------------------------------
(* Properties *)

\* the request was dispatched to the /reviews branch of fetch
Handled ==
  pc # "idle" /\ request.method # "OPTIONS" /\ request.pathname = "/reviews"

\* the invocation returned a 200 response from the /reviews branch
Returned200 == Handled /\ pc = "done" /\ response.status = 200

\* the answer came with a non-success status
Failed(a) == a.kind # "none" /\ a.status \notin 200..299

\* the creation epoch of a returned review as the ordering reads it: a
\* missing or unparseable creation time counts as epoch 0
Epoch(r) == IF r.time.nan THEN 0 ELSE r.time.v

Epochs(rs) == [i \in 1..Len(rs) |-> Epoch(rs[i])]

Ids(rs) == {rs[i].reviewId : i \in 1..Len(rs)}

\* C1: every 200 response of /reviews holds at most limit reviews, and limit
\* is in 1..50, whatever pages the upstream served.
C1_CountAtMostLimit ==
  Returned200 => limit \in 1..50 /\ Len(response.body.reviews) <= limit

\* C1 witness: the upstream served more records than the limit (an oversized
\* page) and the 200 response holds exactly limit reviews.
C1_Witness ==
  /\ Returned200
  /\ Len(all) > limit
  /\ answer.count > answer.requested
  /\ Len(response.body.reviews) = limit

\* the epochs of the n newest of the accumulated records, newest first:
\* normalize and sort the whole accumulated set, then keep the first n
NewestEpochs(acc, n) ==
  LET sorted == Sort([i \in 1..Len(acc) |-> Normalize(acc[i])])
  IN  Epochs(SubSeq(sorted, 1, IF n < Len(sorted) THEN n ELSE Len(sorted)))

\* C2: the reviews of a 200 response are the limit newest, by creation
\* epoch, of all the records accumulated from the upstream pages, newest
\* first (the accumulated set is sorted and only then truncated).
C2_NewestOfAccumulated ==
  Returned200 => Epochs(response.body.reviews) = NewestEpochs(all, limit)

\* C3 as stated: a 200 response is in descending order of creation epoch and
\* every review with epoch 0 comes after all reviews with a nonzero epoch.
C3_ZeroAfterNonzero ==
  Returned200 =>
    LET rs == response.body.reviews
    IN  /\ \A i, j \in 1..Len(rs) : i < j => Epoch(rs[i]) >= Epoch(rs[j])
        /\ \A i, j \in 1..Len(rs) :
              Epoch(rs[i]) = 0 /\ Epoch(rs[j]) # 0 => j < i

\* C3 as amended: a 200 response is in descending order of creation epoch
\* (a missing or unparseable creation time counting as epoch 0) and every
\* review with epoch 0 comes after all reviews with a positive epoch.
C3_DescendingZeroAfterPositive ==
  Returned200 =>
    LET rs == response.body.reviews
    IN  /\ \A i, j \in 1..Len(rs) : i < j => Epoch(rs[i]) >= Epoch(rs[j])
        /\ \A i, j \in 1..Len(rs) :
              Epoch(rs[i]) = 0 /\ Epoch(rs[j]) > 0 => j < i

\* C3 witness: the upstream served a record without creation time before a
\* dated one, and the 200 response holds the dated one first.
C3_Witness ==
  /\ Returned200
  /\ \E i, j \in 1..Len(all) :
       /\ i < j /\ j <= limit
       /\ all[i].createTime.kind \in {"absent", "bad"}
       /\ all[j].createTime.kind = "date" /\ all[j].createTime.ms > 0
  /\ \E i, j \in 1..Len(response.body.reviews) :
       /\ i < j
       /\ Epoch(response.body.reviews[i]) > 0
       /\ Epoch(response.body.reviews[j]) = 0

\* C4: when the account or location identifier is missing, empty or a
\* placeholder, the invocation issues no outbound request and ends in a 500.
C4_BadIdsNoOutboundCall ==
  (Handled /\ (\/ accountId \in {Undef, Null, "", "YOUR_ID"}
               \/ locationId \in {Undef, Null, "", "YOUR_ID"}))
    => /\ tokenCalls = 0 /\ listCalls = 0
       /\ pc = "done" /\ response.status = 500

\* C5: when one of the three OAuth secrets is absent or empty, the
\* invocation issues no outbound request and answers 500 with the
\* missing-secrets message.
C5_MissingSecretsNoOutboundCall ==
  (Handled /\ (\/ env.GOOGLE_OAUTH_CLIENT_ID \in {Undef, ""}
               \/ env.GOOGLE_OAUTH_CLIENT_SECRET \in {Undef, ""}
               \/ env.GOOGLE_OAUTH_REFRESH_TOKEN \in {Undef, ""}))
    => /\ tokenCalls = 0 /\ listCalls = 0 /\ inflight = NoRequest
       /\ pc = "done"
       /\ response.status = 500
       /\ response.body.kind = "error"
       /\ response.body.error.message = "Missing OAuth secrets in Worker env."

\* C5 witness: only the refresh token is missing and the invocation has
\* answered 500 without an outbound request.
C5_Witness ==
  /\ Handled /\ pc = "done"
  /\ env.GOOGLE_OAUTH_CLIENT_ID = "secret"
  /\ env.GOOGLE_OAUTH_CLIENT_SECRET = "secret"
  /\ env.GOOGLE_OAUTH_REFRESH_TOKEN = ""
  /\ response.status = 500
  /\ tokenCalls = 0

\* C6: once the token endpoint has answered with a non-success status, or
\* with a success lacking an access token, the invocation has ended in a 500
\* error response (carrying the status and body text in the non-success
\* case) and no listing request was issued.
C6_TokenFailureNoListing ==
  (Handled /\ answer.kind = "token"
     /\ (answer.status \notin 200..299 \/ answer.access_token \in {Undef, ""}))
    => /\ pc = "done" /\ inflight = NoRequest
       /\ listCalls = 0
       /\ response.status = 500
       /\ response.body.kind = "error"
       /\ IF answer.status \notin 200..299
            THEN /\ response.body.error.message = "OAuth token refresh failed"
                 /\ response.body.error.status = answer.status
                 /\ response.body.error.text = answer.text
            ELSE response.body.error.message =
                   "OAuth token refresh returned no access_token."

\* C6 witness: the token endpoint answered 200 without an access token and
\* the invocation ended in a 500 with no listing request.
C6_Witness ==
  /\ Handled /\ pc = "done"
  /\ answer.kind = "token" /\ answer.status = 200
  /\ answer.access_token = Undef
  /\ response.status = 500
  /\ listCalls = 0

\* C7: no partial success.  Once a listing request was answered with a
\* non-success status, at any position of the pagination, the invocation has
\* ended in a 500 whose JSON error envelope carries the status and body text
\* and holds no reviews; and a 200 response is produced only when the token
\* request and the last listing request succeeded (an earlier failure would
\* have ended the invocation).
C7_NoPartialSuccess ==
  /\ (Handled /\ answer.kind = "list" /\ answer.status \notin 200..299)
       => /\ pc = "done"
          /\ response.status = 500
          /\ response.headers.ContentType = JsonType
          /\ response.body.kind = "error"
          /\ response.body.error.message = "GBP reviews list failed"
          /\ response.body.error.status = answer.status
          /\ response.body.error.text = answer.text
          /\ response.body.reviews = <<>>
  /\ Returned200
       => /\ tokenCalls = 1 /\ accessToken \notin {Undef, Null, ""}
          /\ answer.kind = "list" /\ answer.status \in 200..299
  /\ (Handled /\ pc = "awaitList" /\ answer.kind = "list")
       => answer.status \in 200..299

\* C7 witness: a second listing request failed after a first page had been
\* accumulated, and the response is a 500.
C7_Witness ==
  /\ Handled /\ pc = "done"
  /\ listCalls >= 2 /\ Len(all) >= 1
  /\ answer.kind = "list" /\ answer.status = 403
  /\ response.status = 500

\* an absent value: undefined, null or the empty string
Absent(x) == x \in {Undef, Null, ""}

\* the outbound call failed: a non-success status, or a token answer that
\* carries no access token
CallFailed(a) ==
  \/ Failed(a)
  \/ a.kind = "token" /\ Absent(a.access_token)

\* C8: nothing is retried.  An invocation issues at most one token request,
\* and the step that receives the first failed answer (token or listing)
\* issues no outbound request and ends the invocation with a 500 whose JSON
\* body carries the error message.
C8_NoRetry ==
  [][ /\ tokenCalls' <= 1
      /\ (Handled' /\ CallFailed(answer'))
           => /\ tokenCalls' = tokenCalls /\ listCalls' = listCalls
              /\ inflight' = NoRequest
              /\ pc' = "done"
              /\ response'.status = 500
              /\ response'.headers.ContentType = JsonType
              /\ response'.body.kind = "error"
              /\ response'.body.error.message # "" ]_vars

\* C8 witness: the token request was answered 401 and the invocation ended
\* in a 500 after that single outbound request.
C8_Witness ==
  /\ Handled /\ pc = "done"
  /\ answer.kind = "token" /\ answer.status = 401
  /\ tokenCalls = 1 /\ listCalls = 0
  /\ response.status = 500

CeilDiv(a, b) == (a + b - 1) \div b

\* a page as a well-behaved upstream serves it: a success holding exactly
\* the requested pageSize records, or fewer without a continuation token
NormalPage(a) ==
  /\ a.kind = "list" /\ a.status \in 200..299
  /\ \/ a.count = a.requested
     \/ a.count < a.requested /\ Absent(a.nextPageToken)

\* C9: a normal page ends the pagination: the step that receives it returns
\* the 200 response without a further listing request, and a listing request
\* beyond the ceil(limit/50)-th (the first, as limit is in 1..50) is issued
\* only in answer to a page that was not normal.
C9_NormalUpstreamOneRequest ==
  [][ /\ Handled' => CeilDiv(limit', 50) = 1
      /\ (pc = "awaitList" /\ NormalPage(answer'))
           => /\ pc' = "done" /\ response'.status = 200
              /\ listCalls' = listCalls
      /\ (listCalls' > listCalls /\ listCalls' > CeilDiv(limit', 50))
           => ~NormalPage(answer') ]_vars

\* C9 witness: the single page held exactly limit records and a
\* continuation token, and the invocation returned 200 after one request.
C9_Witness ==
  /\ Returned200
  /\ listCalls = 1
  /\ answer.count = limit /\ answer.requested = limit
  /\ ~Absent(answer.nextPageToken)

\* C10: after a successful page the loop stops exactly when the accumulated
\* count has reached limit, or the page carries no continuation token, or
\* the page is empty; and an empty page with a continuation token ends the
\* invocation with a 200 holding the records accumulated so far.
C10_LoopStops ==
  [][ (pc = "awaitList" /\ answer'.kind = "list"
         /\ answer'.status \in 200..299)
        => LET stop == \/ Len(all') >= limit
                       \/ Absent(answer'.nextPageToken)
                       \/ answer'.count = 0
           IN  /\ stop => /\ pc' = "done" /\ response'.status = 200
                           /\ listCalls' = listCalls
                           /\ inflight' = NoRequest
               /\ ~stop => /\ pc' = "awaitList"
                            /\ listCalls' = listCalls + 1
               /\ (answer'.count = 0 /\ ~Absent(answer'.nextPageToken))
                    => /\ all' = all
                       /\ Len(response'.body.reviews) = Len(all)
                       /\ Ids(response'.body.reviews) = Ids(all) ]_vars

\* C10 witness: after a first page, the upstream served an empty page with a
\* continuation token and the invocation returned the first page's records.
C10_Witness ==
  /\ Returned200
  /\ listCalls = 2
  /\ answer.count = 0 /\ ~Absent(answer.nextPageToken)
  /\ Len(all) >= 1 /\ Len(all) < limit
  /\ Len(response.body.reviews) = Len(all)

\* C11: every listing request in flight asks for pageSize = min(50, limit -
\* accumulated count), which is in 1..50 and at most the number of records
\* still needed; the first request carries no continuation token and every
\* later one carries the token of the page answered just before it.
C11_PageSizeAndToken ==
  (Handled /\ inflight.kind = "list")
    => LET needed == limit - Len(all)
       IN  /\ inflight.pageSize = (IF needed < 50 THEN needed ELSE 50)
           /\ inflight.pageSize \in 1..50
           /\ inflight.pageSize <= needed
           /\ listCalls = 1 => inflight.pageToken = Null
           /\ listCalls > 1 =>
                 /\ ~Absent(inflight.pageToken)
                 /\ answer.kind = "list"
                 /\ inflight.pageToken = answer.nextPageToken

\* C11 witness: a second listing request is in flight; it carries the
\* continuation token and asks for fewer records than the limit.
C11_Witness ==
  /\ Handled /\ pc = "awaitList"
  /\ listCalls = 2
  /\ inflight.pageToken = "next-page"
  /\ inflight.pageSize = limit - Len(all)
  /\ inflight.pageSize < limit

\* limit parameters that are not numbers
NonNumeric == {"abc", "12px"}

\* C12 as stated: a non-numeric or absent limit parameter gives the
\* effective limit 1.
C12_AbsentOrNonNumericIsOne ==
  (Handled /\ limitParam \in NonNumeric \cup {Null}) => limit = 1

\* C12 as amended: a non-numeric limit parameter gives the effective limit 1
\* (the minimum bound, not 10), and an absent one gives the default 10.
C12_NonNumericIsOneAbsentIsTen ==
  /\ (Handled /\ limitParam \in NonNumeric) => limit = 1
  /\ (Handled /\ limitParam = Null) => limit = 10

\* C12 witness: a /reviews request with limit=abc reached the pipeline with
\* the effective limit 1.
C12_Witness ==
  /\ Handled /\ pc = "awaitList"
  /\ limitParam = "abc"
  /\ limit = 1
  /\ inflight.pageSize = 1

\* the limit parameters that Number() reads as a finite number
Numeric == LimitInputs \ (NonNumeric \cup {Null, "Infinity", "-Infinity"})

\* C13: whatever the limit parameter, the effective limit is an integer in
\* 1..50; a numeric value is truncated toward zero and clamped to [1,50].
C13_LimitInRange ==
  Handled =>
    /\ limit \in 1..50
    /\ limitParam \in Numeric =>
         LET t == Number(limitParam).tenths
         IN  IF t < 10 THEN limit = 1
             ELSE IF t >= 500 THEN limit = 50
             ELSE 10 * limit <= t /\ t < 10 * limit + 10

\* C13 witness: a fractional limit (3.7) reached the pipeline as 3, and the
\* listing request asks for 3 records.
C13_Witness ==
  /\ Handled /\ pc = "awaitList"
  /\ limitParam = "3.7"
  /\ limit = 3
  /\ inflight.pageSize = 3

\* C14: every request that is neither an OPTIONS request nor GET /reviews
\* is answered 404 with the plain text "Not found" and issues no outbound
\* request.
C14_OnlyGetReviews ==
  (/\ pc # "idle"
   /\ request.method # "OPTIONS"
   /\ ~(request.method = "GET" /\ request.pathname = "/reviews"))
    => /\ pc = "done"
       /\ response.status = 404
       /\ response.body.kind = "text"
       /\ response.body.text = "Not found"
       /\ tokenCalls = 0 /\ listCalls = 0

\* C15: an OPTIONS request to any path, under any configuration, is answered
\* 204 without a body and with the four cross-origin headers, and issues no
\* outbound request.
C15_Preflight ==
  (pc # "idle" /\ request.method = "OPTIONS")
    => /\ pc = "done"
       /\ response.status = 204
       /\ response.body.kind = "none"
       /\ response.headers.ContentType = ""
       /\ response.headers.AllowOrigin =
            (IF env.ALLOWED_ORIGIN \in {Undef, ""} THEN "*" ELSE env.ALLOWED_ORIGIN)
       /\ response.headers.AllowMethods = "GET,OPTIONS"
       /\ response.headers.AllowHeaders = "Content-Type,Authorization"
       /\ response.headers.MaxAge = "86400"
       /\ tokenCalls = 0 /\ listCalls = 0 /\ inflight = NoRequest
       /\ answer = NoAnswer /\ accessToken = Undef

\* C15 witness: OPTIONS /reviews was answered 204 by a worker without OAuth
\* secrets and with a configured origin.
C15_Witness ==
  /\ pc = "done"
  /\ request.method = "OPTIONS" /\ request.pathname = "/reviews"
  /\ env.GOOGLE_OAUTH_CLIENT_ID = Undef
  /\ env.ALLOWED_ORIGIN = "https://signage.example"
  /\ response.status = 204

\* the upstream record a returned review was made from
RawOf(r) == CHOOSE raw \in {all[i] : i \in 1..Len(all)} : raw.reviewId = r.reviewId

Returned == {response.body.reviews[i] : i \in 1..Len(response.body.reviews)}

\* C17: the rating of every returned review is 1..5 for the labels ONE..FIVE
\* and the number 0 for every other label and for a missing label.
C17_RatingTable ==
  Returned200 =>
    \A r \in Returned :
      LET label == RawOf(r).starRating
      IN  /\ r.rating.type = "number"
          /\ r.rating.v \in 0..5
          /\ r.rating.v = (CASE label = "ONE"   -> 1
                             [] label = "TWO"   -> 2
                             [] label = "THREE" -> 3
                             [] label = "FOUR"  -> 4
                             [] label = "FIVE"  -> 5
                             [] OTHER -> 0)

\* C18: the time of every returned review is the creation instant in whole
\* epoch seconds, floored, and the number 0 when the creation time is absent
\* or unparseable.
C18_EpochSecondsOrZero ==
  Returned200 =>
    \A r \in Returned :
      LET ct == RawOf(r).createTime
      IN  /\ ~r.time.nan
          /\ IF ct.kind = "date"
               THEN 1000 * r.time.v <= ct.ms /\ ct.ms < 1000 * r.time.v + 1000
               ELSE r.time.v = 0

\* C19: whatever the upstream answers, an invocation issues at most limit
\* listing requests: every answer either ends the invocation or is followed
\* by exactly one further listing request, and then the accumulated count has
\* grown by at least one record and is still below limit.
C19_AtMostLimitRequests ==
  [][ /\ Handled' => listCalls' <= limit'
      /\ pc = "awaitList" =>
            \/ pc' = "done" /\ listCalls' = listCalls
            \/ /\ pc' = "awaitList"
               /\ listCalls' = listCalls + 1
               /\ Len(all') > Len(all)
               /\ Len(all') < limit'
               /\ listCalls' <= Len(all') + 1 ]_vars

\* C19 witness: with limit 3 the upstream served three pages of one record
\* each, and the invocation returned after exactly 3 listing requests.
C19_Witness ==
  /\ Returned200
  /\ limit = 3
  /\ listCalls = 3
  /\ Len(all) = 3

\* C20: the outbound calls of an invocation form one chain.  There is a
\* single token request, issued before any listing request; a listing
\* request is issued only by the step that receives the successful answer of
\* the call before it (the token request for the first one, the previous
\* listing request for the others), and it carries the access token that the
\* token exchange returned.
C20_SequentialChain ==
  [][ /\ tokenCalls' <= 1
      /\ tokenCalls' > tokenCalls =>
            /\ inflight = NoRequest /\ inflight'.kind = "token"
            /\ listCalls' = 0
      /\ listCalls' > listCalls =>
            /\ inflight.kind \in {"token", "list"}
            /\ inflight'.kind = "list"
            /\ answer'.kind = inflight.kind
            /\ answer'.status \in 200..299
            /\ tokenCalls = 1 /\ tokenCalls' = 1
            /\ ~Absent(inflight'.bearer)
            /\ inflight'.bearer = accessToken'
            /\ inflight.kind = "token" =>
                  /\ listCalls = 0
                  /\ inflight'.bearer = answer'.access_token
            /\ inflight.kind = "list" =>
                  /\ listCalls >= 1
                  /\ inflight'.bearer = inflight.bearer ]_vars

\* C20 witness: a second listing request is in flight with the access token
\* of the one token exchange.
C20_Witness ==
  /\ Handled /\ pc = "awaitList"
  /\ tokenCalls = 1 /\ listCalls = 2
  /\ inflight.kind = "list"
  /\ inflight.bearer = "ya29.token"
  /\ accessToken = "ya29.token"

\* C16: two invocations interleaved at their awaits do not touch each
\* other.  A step either belongs to the running invocation and leaves the
\* suspended one as it was, or hands over between the two without changing
\* either.  Each invocation makes its own single token exchange, its listing
\* requests carry the access token of that exchange and the continuation
\* token of its own previous page, its accumulated records grow only by the
\* pages it was answered, and its 200 response is computed from its own
\* accumulated records and limit.
C16_InvocationsIndependent ==
  [][ /\ \/ parked' = parked
         \/ parked' = Context /\ Context' = parked
      /\ \A c \in {Context', parked'} :
            /\ c.tokenCalls <= 1
            /\ c.listCalls >= 1 => c.tokenCalls = 1 /\ ~Absent(c.accessToken)
            /\ c.inflight.kind = "list" => c.inflight.bearer = c.accessToken
      /\ parked' = parked =>
            /\ accessToken' # accessToken =>
                  /\ accessToken = Undef
                  /\ pc = "awaitToken"
                  /\ accessToken' = answer'.access_token
            /\ SubSeq(all', 1, Len(all)) = all
            /\ Len(all') = Len(all) + (IF pc = "awaitList" THEN answer'.count ELSE 0)
            /\ pc = "awaitList" /\ pc' = "awaitList" =>
                  /\ inflight'.pageToken = answer'.nextPageToken
                  /\ inflight'.bearer = inflight.bearer
            /\ pc # "done" /\ pc' = "done" /\ response'.status = 200 =>
                  response'.body.reviews = Normalized(all', limit') ]_vars

\* C16 witness: both invocations are awaiting their second listing page at
\* the same time, each with the access token of its own exchange and with
\* different accumulated records.
C16_Witness ==
  /\ pc = "awaitList" /\ parked.pc = "awaitList"
  /\ listCalls = 2 /\ parked.listCalls = 2
  /\ tokenCalls = 1 /\ parked.tokenCalls = 1
  /\ accessToken = "ya29.token" /\ parked.accessToken = "ya29.other"
  /\ inflight.bearer = "ya29.token" /\ parked.inflight.bearer = "ya29.other"
  /\ all # parked.all

====
